---- MODULE Spec2Model ----
(***************************************************************************)
(* CSV analyzer bridge layer (public/python): the DuckDB connection        *)
(* manager, the CSV loader, the result normalizer, the analysis            *)
(* orchestrator and the package-level convenience functions, over a model  *)
(* of the engine operations the code issues.                               *)
(***************************************************************************)
EXTENDS Integers, Sequences, FiniteSets, TLC

(***************************************************************************)
(* Bounds                                                                  *)
(***************************************************************************)
\* connection handles the engine may hand out in one behaviour
MaxHandles == 2
\* how many of the CSV texts of AllCsv the callers supply
MaxCsv == 3
\* how many of the rows of NormRowPool a caller-built result set may use
MaxNormRows == 2
\* the largest sample limit the callers pass besides the default
MaxLimit == 1

(***************************************************************************)
(* Python / engine cell values.  Every value is a record of one shape:     *)
(*   k : the value's kind, s : its text, n / e : a number n * 10^(-e).     *)
(***************************************************************************)
Cell(k, s, n, e) == [k |-> k, s |-> s, n |-> n, e |-> e]
NoneCell == Cell("null", "", 0, 0)
IntCell(n) == Cell("int", "", n, 0)
FloatCell(n, e) == Cell("float", "", n, e)
DecimalCell(n, e) == Cell("decimal", "", n, e)
BoolCell(b) == Cell("bool", "", IF b THEN 1 ELSE 0, 0)
DateCell(s) == Cell("date", s, 0, 0)
StrCell(s) == Cell("str", s, 0, 0)
ObjCell(s) == Cell("obj", s, 0, 0)

\* float(decimal.Decimal): the same number as a binary float; the decimal's
\* trailing zeros (its scale) are not part of the float
RECURSIVE StripZeros(_, _)
StripZeros(n, e) ==
    IF e > 0 /\ n % 10 = 0 THEN StripZeros(n \div 10, e - 1) ELSE <<n, e>>

DecimalToFloat(cell) ==
    LET r == StripZeros(cell.n, cell.e) IN FloatCell(r[1], r[2])

\* str(cell) of the kinds that reach the str branch
PyStr(cell) ==
    CASE cell.k = "bool" -> StrCell(IF cell.n = 1 THEN "True" ELSE "False")
      [] cell.k = "null" -> StrCell("None")
      [] OTHER -> StrCell(cell.s)

\* a test of type(cell), which a bool does not pass
IsIntOrFloat_Exact(cell) == cell.k \in {"int", "float"}

\* isinstance(cell, (int, float)): bool is a subclass of int
IsIntOrFloat(cell) == cell.k \in {"int", "float", "bool"}

(***************************************************************************)
(* CSV text: a sequence of lines, each a sequence of fields                *)
(***************************************************************************)
AllCsv ==
    << << <<"id", "name">>, <<"1", "Alice">>, <<"2", "Bob">> >>,
       << <<"id", "name">>, <<"1">> >>,
       << <<"d", "ok", "amt">>, <<"2024-01-01", "true", "3.5">> >>,
       << <<"id">>, <<"1">>, <<"">>, <<"2">> >>,
       << <<"id", "name">>, <<"2", "Bob">>, <<"1", "Alice">>, <<"3.5", "">> >>,
       << >> >>

CsvInputs == {AllCsv[i] : i \in 1..(IF MaxCsv < Len(AllCsv) THEN MaxCsv ELSE Len(AllCsv))}

TableNames == {"csv_data", "other"}
DefaultTable == "csv_data"

IntFields == [f \in {"1", "2"} |-> IF f = "1" THEN 1 ELSE 2]

FieldKind(f) ==
    CASE f = "" -> "null"
      [] f \in DOMAIN IntFields -> "int"
      [] f = "3.5" -> "float"
      [] f \in {"true", "false"} -> "bool"
      [] f = "2024-01-01" -> "date"
      [] OTHER -> "str"

\* read_csv_auto's type detection of one column from its fields
InferType(fields) ==
    LET ks == {FieldKind(f) : f \in fields} \ {"null"} IN
    CASE ks = {} -> "VARCHAR"
      [] ks = {"int"} -> "BIGINT"
      [] ks \subseteq {"int", "float"} -> "DOUBLE"
      [] ks = {"bool"} -> "BOOLEAN"
      [] ks = {"date"} -> "DATE"
      [] OTHER -> "VARCHAR"

\* the engine value of a field read into a column of type ty
CastField(f, ty) ==
    CASE f = "" -> NoneCell
      [] ty = "BIGINT" -> IntCell(IntFields[f])
      [] ty = "DOUBLE" ->
            IF f = "3.5" THEN FloatCell(35, 1) ELSE FloatCell(IntFields[f], 0)
      [] ty = "BOOLEAN" -> BoolCell(f = "true")
      [] ty = "DATE" -> DateCell(f)
      [] OTHER -> StrCell(f)

NoTable == [exists |-> FALSE, cols |-> << >>, rows |-> << >>]

\* a text the engine's CSV reader accepts: a header line and lines of the
\* header's width
CsvValid(text) ==
    /\ Len(text) >= 1
    /\ Len(text[1]) >= 1
    /\ \A i \in 1..Len(text) : Len(text[i]) = Len(text[1])

\* the reader told that the text has no header line
ReadCsvAuto_NoHeader(text) ==
    LET ty(j) == InferType({text[i][j] : i \in 1..Len(text)})
    IN [exists |-> TRUE,
        cols |-> [j \in 1..Len(text[1]) |-> [name |-> "column", type |-> ty(j)]],
        rows |-> [i \in 1..Len(text) |->
                    [j \in 1..Len(text[1]) |-> CastField(text[i][j], ty(j))]]]

\* SELECT * FROM read_csv_auto(file): the first line names the columns, every
\* other line is a row
ReadCsvAuto(text) ==
    LET header == text[1]
        nrows == Len(text) - 1
        ty(j) == InferType({text[i][j] : i \in 2..Len(text)})
    IN [exists |-> TRUE,
        cols |-> [j \in 1..Len(header) |-> [name |-> header[j], type |-> ty(j)]],
        rows |-> [i \in 1..nrows |->
                    [j \in 1..Len(header) |-> CastField(text[i + 1][j], ty(j))]]]

(***************************************************************************)
(* The engine: the SQL statements the code issues, on one connection's     *)
(* tables and the staged file                                              *)
(***************************************************************************)
Q(cmd, t, n) == [cmd |-> cmd, t |-> t, n |-> n]
QCount(t) == Q("COUNT", t, 0)         \* SELECT count(*) FROM t
QDescribe(t) == Q("DESCRIBE", t, 0)   \* DESCRIBE t
QSummarize(t) == Q("SUMMARIZE", t, 0) \* SUMMARIZE t
QProbe(t) == Q("PROBE", t, 0)         \* SELECT 1 FROM t LIMIT 1
QSample(t, n) == Q("SAMPLE", t, n)    \* SELECT * FROM t LIMIT n
QDrop(t) == Q("DROP", t, 0)           \* DROP TABLE IF EXISTS t
QCreate(t) == Q("CREATE", t, 0)       \* CREATE TABLE t AS SELECT * FROM read_csv_auto(file)
QBad == Q("BAD", "", 0)               \* a text the engine's parser rejects

NoFile == [present |-> FALSE, text |-> << >>]
FileOf(text) == [present |-> TRUE, text |-> text]

EngineOk(rows, cols, tbls) ==
    [ok |-> TRUE, err |-> "", rows |-> rows, cols |-> cols, tables |-> tbls]
EngineErr(err, tbls) ==
    [ok |-> FALSE, err |-> err, rows |-> << >>, cols |-> << >>, tables |-> tbls]

DescribeColumns == <<"column_name", "column_type", "null", "key", "default", "extra">>
SummarizeColumns ==
    <<"column_name", "column_type", "min", "max", "approx_unique", "avg", "std",
      "q25", "q50", "q75", "count", "null_percentage">>

Min(a, b) == IF a < b THEN a ELSE b

DescribeRows(tb) ==
    [j \in 1..Len(tb.cols) |->
        <<StrCell(tb.cols[j].name), StrCell(tb.cols[j].type), StrCell("YES"),
          NoneCell, NoneCell, NoneCell>>]

\* one row of SUMMARIZE per column; the statistics are the engine's, carried as
\* the texts and numbers of the kinds the engine returns them in
SummarizeRows(tb) ==
    [j \in 1..Len(tb.cols) |->
        LET vals == {tb.rows[i][j] : i \in 1..Len(tb.rows)}
            nonnull == vals \ {NoneCell}
            nulls == Cardinality({i \in 1..Len(tb.rows) : tb.rows[i][j] = NoneCell})
            numeric == tb.cols[j].type \in {"BIGINT", "DOUBLE"}
            stat(name) == IF nonnull = {} THEN NoneCell ELSE StrCell(name)
            nstat(name) == IF numeric /\ nonnull # {} THEN StrCell(name) ELSE NoneCell
        IN <<StrCell(tb.cols[j].name), StrCell(tb.cols[j].type),
             stat("min"), stat("max"), IntCell(Cardinality(nonnull)),
             nstat("avg"), nstat("std"), nstat("q25"), nstat("q50"), nstat("q75"),
             IntCell(Len(tb.rows)),
             IF Len(tb.rows) = 0 THEN NoneCell
             ELSE DecimalCell((nulls * 10000) \div Len(tb.rows), 2)>>]

\* conn.execute(query) followed by the cursor's fetchall() and description
Execute(tbls, f, q) ==
    CASE q.cmd = "BAD" -> EngineErr("ParserException", tbls)
      [] q.cmd = "DROP" ->
            EngineOk(<< >>, << >>, [tbls EXCEPT ![q.t] = NoTable])
      [] q.cmd = "CREATE" ->
            IF tbls[q.t].exists THEN EngineErr("CatalogException", tbls)
            ELSE IF ~f.present THEN EngineErr("IOException", tbls)
            ELSE IF ~CsvValid(f.text) THEN EngineErr("InvalidInputException", tbls)
            ELSE LET tb == ReadCsvAuto(f.text) IN
                 EngineOk(<< <<IntCell(Len(tb.rows))>> >>, <<"Count">>,
                          [tbls EXCEPT ![q.t] = tb])
      [] ~tbls[q.t].exists -> EngineErr("CatalogException", tbls)
      [] q.cmd = "COUNT" ->
            EngineOk(<< <<IntCell(Len(tbls[q.t].rows))>> >>, <<"count_star()">>, tbls)
      [] q.cmd = "DESCRIBE" ->
            EngineOk(DescribeRows(tbls[q.t]), DescribeColumns, tbls)
      [] q.cmd = "SUMMARIZE" ->
            EngineOk(SummarizeRows(tbls[q.t]), SummarizeColumns, tbls)
      [] q.cmd = "PROBE" ->
            EngineOk(IF Len(tbls[q.t].rows) >= 1 THEN << <<IntCell(1)>> >> ELSE << >>,
                     <<"1">>, tbls)
      [] q.cmd = "SAMPLE" ->
            EngineOk(SubSeq(tbls[q.t].rows, 1, Min(q.n, Len(tbls[q.t].rows))),
                     [j \in 1..Len(tbls[q.t].cols) |-> tbls[q.t].cols[j].name], tbls)

(***************************************************************************)
(* Engine type strings, spelled out so that Python's `in` on strings       *)
(* (substring) is computed                                                 *)
(***************************************************************************)
Spelling(ty) ==
    CASE ty = "VARCHAR" -> <<"V", "A", "R", "C", "H", "A", "R">>
      [] ty = "TEXT" -> <<"T", "E", "X", "T">>
      [] ty = "INTEGER" -> <<"I", "N", "T", "E", "G", "E", "R">>
      [] ty = "BIGINT" -> <<"B", "I", "G", "I", "N", "T">>
      [] ty = "UBIGINT" -> <<"U", "B", "I", "G", "I", "N", "T">>
      [] ty = "HUGEINT" -> <<"H", "U", "G", "E", "I", "N", "T">>
      [] ty = "DOUBLE" -> <<"D", "O", "U", "B", "L", "E">>
      [] ty = "FLOAT" -> <<"F", "L", "O", "A", "T">>
      [] ty = "DATE" -> <<"D", "A", "T", "E">>
      [] ty = "TIME" -> <<"T", "I", "M", "E">>
      [] ty = "TIMESTAMP" -> <<"T", "I", "M", "E", "S", "T", "A", "M", "P">>
      [] ty = "BOOLEAN" -> <<"B", "O", "O", "L", "E", "A", "N">>
      [] ty = "SMALLINT" ->
            <<"S", "M", "A", "L", "L", "I", "N", "T">>
      [] ty = "DECIMAL(18,3)" ->
            <<"D", "E", "C", "I", "M", "A", "L", "(", "1", "8", ",", "3", ")">>
      [] ty = "TIMESTAMP WITH TIME ZONE" ->
            <<"T", "I", "M", "E", "S", "T", "A", "M", "P", " ", "W", "I", "T", "H", " ", "T", "I", "M", "E", " ", "Z", "O", "N", "E">>
      [] ty = "MAP(VARCHAR, INTEGER)" ->
            <<"M", "A", "P", "(", "V", "A", "R", "C", "H", "A", "R", ",", " ", "I", "N", "T", "E", "G", "E", "R", ")">>
      [] ty = "STRUCT(d DATE, n INTEGER)" ->
            <<"S", "T", "R", "U", "C", "T", "(", "d", " ", "D", "A", "T", "E", ",", " ", "n", " ", "I", "N", "T", "E", "G", "E", "R", ")">>
      [] ty = "STRUCT(d DATE, ok BOOLEAN)" ->
            <<"S", "T", "R", "U", "C", "T", "(", "d", " ", "D", "A", "T", "E", ",", " ", "o", "k", " ", "B", "O", "O", "L", "E", "A", "N", ")">>

\* pat in s, on Python strings
Contains(s, pat) ==
    LET a == Spelling(s)
        b == Spelling(pat)
    IN \E i \in 0..(Len(a) - Len(b)) : SubSeq(a, i + 1, i + Len(b)) = b

\* the if/elif chain with the date test ahead of the number test
FrontendType_DateFirst(col_type) ==
    IF Contains(col_type, "VARCHAR") \/ Contains(col_type, "TEXT") THEN "string"
    ELSE IF Contains(col_type, "DATE") \/ Contains(col_type, "TIMESTAMP") THEN "date"
    ELSE IF \/ Contains(col_type, "INTEGER") \/ Contains(col_type, "BIGINT")
            \/ Contains(col_type, "DOUBLE") \/ Contains(col_type, "FLOAT") THEN "number"
    ELSE IF Contains(col_type, "BOOLEAN") THEN "boolean"
    ELSE "string"

\* the if/elif chain of get_table_info over the raw engine type
FrontendType(col_type) ==
    IF Contains(col_type, "VARCHAR") \/ Contains(col_type, "TEXT") THEN "string"
    ELSE IF \/ Contains(col_type, "INTEGER") \/ Contains(col_type, "BIGINT")
            \/ Contains(col_type, "DOUBLE") \/ Contains(col_type, "FLOAT") THEN "number"
    ELSE IF Contains(col_type, "DATE") \/ Contains(col_type, "TIMESTAMP") THEN "date"
    ELSE IF Contains(col_type, "BOOLEAN") THEN "boolean"
    ELSE "string"

\* str.title() of the four kinds
Title(kind) ==
    CASE kind = "string" -> "String"
      [] kind = "number" -> "Number"
      [] kind = "date" -> "Date"
      [] kind = "boolean" -> "Boolean"

(***************************************************************************)
(* State                                                                   *)
(***************************************************************************)
VARIABLES
    conn,         \* db_manager.conn: 0 is None, otherwise the connection handle
    impl,         \* the database module db_manager is an instance of
    open_conns,   \* the engine connections opened and not closed
    next_handle,  \* the next handle duckdb.connect returns
    tables,       \* the tables of db_manager's in-memory database
    file,         \* /tmp/data.csv
    loads,        \* the load_csv_from_content calls in progress, step by step
    initialized,  \* the package globals are set (csv_analyzer/__init__.py)
    ret,          \* the last call: what was called and what it returned or raised
    in_rows,      \* a result set handed to the normalizer
    in_cols       \* and its column names

vars == <<conn, impl, open_conns, next_handle, tables, file, initialized, ret,
          in_rows, in_cols, loads>>

EmptyTables == [t \in TableNames |-> NoTable]

\* the threads of the host that call load_csv_from_content
Callers == {"a", "b"}

\* a call: where it stands (idle, staged, dropped, created, done), the content
\* it was given, whether another call was in progress during it, and how it
\* ended
IdleCall == [pc |-> "idle", csv |-> << >>, ov |-> FALSE, ok |-> FALSE, err |-> "", n |-> 0]

NoLoads == [call |-> [c \in Callers |-> IdleCall], last |-> ""]

NoQuery == Q("", "", 0)

NoPay ==
    [keys |-> {}, data |-> << >>, columns |-> << >>, row_count |-> 0,
     column_count |-> 0, command |-> "", table_name |-> "",
     source_table_rows |-> 0, query |-> NoQuery, sample_size |-> 0]

\* a call's outcome: ok or the error raised, and the value returned
\* (n: a number or handle, b: a boolean, pay: a dict, info: a tuple), with
\* its arguments (t, csv, q) and, of a load, the target table as it was (old)
Returned(op) ==
    [op |-> op, t |-> "", csv |-> << >>, q |-> NoQuery, old |-> NoTable,
     ok |-> TRUE, err |-> "",
     n |-> 0, b |-> FALSE, pay |-> NoPay, info |-> << >>]
Raised(op, err) == [Returned(op) EXCEPT !.ok = FALSE, !.err = err]

NotConnected == "RuntimeError: not connected"
NotInitialized == "RuntimeError: not initialized"
TableNotFound == "ValueError: table does not exist"
UnpackError == "ValueError: too many values to unpack"

(***************************************************************************)
(* DatabaseManager (database.py)                                           *)
(***************************************************************************)
\* execute_query without the `is None` test: None has no execute
DbExecuteQuery_NoCheck(c, tbls, f, q) ==
    IF c = 0 THEN EngineErr("AttributeError", tbls) ELSE Execute(tbls, f, q)

\* execute_query on a manager whose conn is c
DbExecuteQuery(c, tbls, f, q) ==
    IF c = 0 THEN EngineErr(NotConnected, tbls) ELSE Execute(tbls, f, q)

\* a probe that names no table
DbTableExists_NoFrom(c, tbls, f) == c # 0

\* table_exists: the probe, any exception is False
DbTableExists(c, tbls, f) == DbExecuteQuery(c, tbls, f, QProbe(DefaultTable)).ok

ColumnDetails(columns_info) ==
    [j \in 1..Len(columns_info) |->
        LET col_name == columns_info[j][1].s
            col_type == columns_info[j][2].s
            frontend_type == FrontendType(col_type)
        IN [name |-> col_name, type |-> frontend_type, raw_type |-> col_type,
            description |-> <<Title(frontend_type), col_name>>]]

\* get_table_info: [ok, err, val]; val is the tuple returned, of two elements
\* in csv_analyzer/database.py and of three in analyzer/database.py
DbGetTableInfo(im, c, tbls, f) ==
    LET r1 == DbExecuteQuery(c, tbls, f, QCount(DefaultTable))
        r2 == DbExecuteQuery(c, tbls, f, QDescribe(DefaultTable))
        row_count == r1.rows[1][1].n
        column_names == [j \in 1..Len(r2.rows) |-> r2.rows[j][1].s]
    IN IF ~r1.ok THEN [ok |-> FALSE, err |-> r1.err, val |-> << >>]
       ELSE IF ~r2.ok THEN [ok |-> FALSE, err |-> r2.err, val |-> << >>]
       ELSE IF im = "analyzer"
            THEN [ok |-> TRUE, err |-> "",
                  val |-> <<row_count, column_names, ColumnDetails(r2.rows)>>]
            ELSE [ok |-> TRUE, err |-> "", val |-> <<row_count, column_names>>]

(***************************************************************************)
(* DataProcessor (utils.py)                                                *)
(***************************************************************************)
\* the conversion with the `is None` test left out
ConvertCellValue_NoNull(cell) ==
    IF cell.k = "decimal" THEN DecimalToFloat(cell)
    ELSE IF IsIntOrFloat(cell) THEN cell
    ELSE PyStr(cell)

ConvertCellValue(cell) ==
    IF cell.k = "null" THEN NoneCell
    ELSE IF cell.k = "decimal" THEN DecimalToFloat(cell)
    ELSE IF IsIntOrFloat(cell) THEN cell
    ELSE PyStr(cell)

ProcessedRow(row) == [j \in 1..Len(row) |-> ConvertCellValue(row[j])]

ProcessQueryResult(result_data, columns) ==
    LET processed_data == [i \in 1..Len(result_data) |-> ProcessedRow(result_data[i])]
    IN [NoPay EXCEPT !.keys = {"data", "columns", "row_count", "column_count"},
                     !.data = processed_data,
                     !.columns = columns,
                     !.row_count = Len(processed_data),
                     !.column_count = Len(columns)]

(***************************************************************************)
(* DataAnalyzer (csv_analyzer/analyzer.py)                                 *)
(***************************************************************************)
\* _run_analysis_command: the outcome of op, which issues no statement that
\* changes the engine's state
RunAnalysisCommand(op, command, t) ==
    LET info == DbGetTableInfo(impl, conn, tables, file)
        r == DbExecuteQuery(conn, tables, file, Q(command, t, 0))
    IN IF ~DbTableExists(conn, tables, file)
          THEN [Raised(op, TableNotFound) EXCEPT !.t = t]
       ELSE IF ~info.ok THEN [Raised(op, info.err) EXCEPT !.t = t]
       ELSE IF Len(info.val) # 2 THEN [Raised(op, UnpackError) EXCEPT !.t = t]
       ELSE IF ~r.ok THEN [Raised(op, r.err) EXCEPT !.t = t]
       ELSE [Returned(op) EXCEPT
                !.t = t,
                !.pay = [ProcessQueryResult(r.rows, r.cols) EXCEPT
                            !.keys = @ \cup {"command", "table_name", "source_table_rows"},
                            !.command = command,
                            !.table_name = t,
                            !.source_table_rows = info.val[1]]]

\* custom_query with the failure answered by an empty payload
CustomQuery_Swallow(q) ==
    LET r == DbExecuteQuery(conn, tables, file, q)
    IN [Returned("custom_query") EXCEPT
            !.q = q,
            !.pay = [ProcessQueryResult(r.rows, r.cols) EXCEPT
                        !.keys = @ \cup {"query"}, !.query = q]]

CustomQuery(q) ==
    LET r == DbExecuteQuery(conn, tables, file, q)
    IN IF ~r.ok THEN [Raised("custom_query", r.err) EXCEPT !.q = q]
       ELSE [Returned("custom_query") EXCEPT
                !.q = q,
                !.pay = [ProcessQueryResult(r.rows, r.cols) EXCEPT
                            !.keys = @ \cup {"query"}, !.query = q]]

(***************************************************************************)
(* DataLoader (analyzer/loader.py)                                         *)
(***************************************************************************)
\* the file opened in append mode
StageFile_Append(old, csv_content) == FileOf(old.text \o csv_content)

\* open('/tmp/data.csv', 'w') and write: the file holds csv_content alone
StageFile(old, csv_content) == FileOf(csv_content)

\* fetchone()[0] with the columns counted
RowCount_Columns(counted) == Len(counted.cols)

\* fetchone()[0] of the count query
RowCount(counted) == counted.rows[1][1].n

\* the load that answers a failed CREATE with the row count of what is there
LoadCsvFromContent_Swallow(op, c, tbls, csv_content, t) ==
    LET f1 == StageFile(file, csv_content)
        dropped == DbExecuteQuery(c, tbls, f1, QDrop(t))
        created == DbExecuteQuery(c, dropped.tables, f1, QCreate(t))
    IN [file |-> f1,
        tables |-> created.tables,
        ret |-> [Returned(op) EXCEPT
                    !.t = t, !.csv = csv_content, !.old = tbls[t],
                    !.n = Len(created.tables[t].rows)]]

\* load_csv_from_content on a manager connected as c (after its connect()):
\* the file, the tables and the outcome
LoadCsvFromContent(op, c, tbls, csv_content, t) ==
    LET f1 == StageFile(file, csv_content)
        dropped == DbExecuteQuery(c, tbls, f1, QDrop(t))
        created == DbExecuteQuery(c, dropped.tables, f1, QCreate(t))
        counted == DbExecuteQuery(c, created.tables, f1, QCount(t))
    IN [file |-> f1,
        tables |-> created.tables,
        ret |-> IF ~created.ok
                   THEN [Raised(op, created.err) EXCEPT
                            !.t = t, !.csv = csv_content, !.old = tbls[t]]
                ELSE IF ~counted.ok
                   THEN [Raised(op, counted.err) EXCEPT
                            !.t = t, !.csv = csv_content, !.old = tbls[t]]
                ELSE [Returned(op) EXCEPT
                            !.t = t, !.csv = csv_content, !.old = tbls[t],
                            !.n = RowCount(counted)]]

GetSampleData(t, limit) ==
    LET r == DbExecuteQuery(conn, tables, file, QSample(t, limit))
    IN IF ~r.ok THEN [Raised("get_sample_data", r.err) EXCEPT !.t = t, !.n = limit]
       ELSE [Returned("get_sample_data") EXCEPT
                !.t = t, !.n = limit,
                !.pay = [NoPay EXCEPT !.keys = {"data", "columns", "sample_size"},
                                      !.data = r.rows,
                                      !.columns = r.cols,
                                      !.sample_size = Len(r.rows)]]

(***************************************************************************)
(* The scripts (utils.py, run_analysis.py), on the host's global `conn`    *)
(***************************************************************************)
\* utils.process_query_result: None stays, everything else is str(cell)
LegacyProcessQueryResult(result_data, columns) ==
    LET processed_data ==
            [i \in 1..Len(result_data) |->
                [j \in 1..Len(result_data[i]) |->
                    IF result_data[i][j].k = "null" THEN NoneCell
                    ELSE PyStr(result_data[i][j])]]
    IN [NoPay EXCEPT !.keys = {"data", "columns", "row_count", "column_count"},
                     !.data = processed_data,
                     !.columns = columns,
                     !.row_count = Len(processed_data),
                     !.column_count = Len(columns)]

\* conn.execute(query) on the global conn: None has no execute
RawExecute(c, tbls, f, q) ==
    IF c = 0 THEN EngineErr("AttributeError", tbls) ELSE Execute(tbls, f, q)

\* command_type.upper()
Upper(command_type) ==
    CASE command_type = "describe" -> "DESCRIBE"
      [] command_type = "summarize" -> "SUMMARIZE"

\* run_analysis.run_analysis_command: validate_table_exists, the command on
\* csv_data, utils.process_query_result
RunAnalysisScript(command_type) ==
    LET command == Upper(command_type)
        q == Q(command, DefaultTable, 0)
        v == RawExecute(conn, tables, file, QCount(DefaultTable))
        r == RawExecute(conn, tables, file, q)
    IN IF ~v.ok THEN [Raised("run_analysis_command", v.err) EXCEPT !.q = q]
       ELSE IF ~r.ok THEN [Raised("run_analysis_command", r.err) EXCEPT !.q = q]
       ELSE [Returned("run_analysis_command") EXCEPT
                !.q = q, !.pay = LegacyProcessQueryResult(r.rows, r.cols)]

(***************************************************************************)
(* Inputs                                                                  *)
(***************************************************************************)
DefaultLimit == 5

SampleLimits == (1..MaxLimit) \cup {DefaultLimit}

\* the statements callers pass to execute_query
Queries ==
    UNION {{QCount(t), QDescribe(t), QDrop(t), QCreate(t)} : t \in TableNames}
        \cup {QBad}

\* the statements callers pass to custom_query: the ones with a result set
CustomQueries ==
    UNION {{QSummarize(t), QSample(t, 1)} : t \in TableNames} \cup {QBad}

\* result rows a caller may hand to the normalizer, of every value kind and of
\* several widths
NormRowPool ==
    { <<NoneCell, IntCell(1)>>,
      <<DecimalCell(310, 2), FloatCell(35, 1)>>,
      <<BoolCell(TRUE), DateCell("2024-01-01")>>,
      <<StrCell("Alice")>>,
      <<ObjCell("<duckdb.Value>"), BoolCell(FALSE), DecimalCell(314, 2)>>,
      << >> }

NormRowSets == UNION {[1..n -> NormRowPool] : n \in 0..MaxNormRows}

NormColSets == { << >>, <<"a">>, <<"a", "b">>, <<"a", "b", "c">> }

CellInputs == UNION {{row[j] : j \in 1..Len(row)} : row \in NormRowPool}

(***************************************************************************)
(* Initial states: a DatabaseManager, a DataLoader and a DataAnalyzer as   *)
(* constructed, the package not initialized                                *)
(***************************************************************************)
InitSession ==
    /\ conn = 0
    /\ impl \in {"csv_analyzer", "analyzer"}
    /\ open_conns = {}
    /\ next_handle = 1
    /\ tables = EmptyTables
    /\ file = NoFile
    /\ initialized = FALSE
    /\ ret = Returned("")
    /\ loads = NoLoads

Init ==
    /\ InitSession
    /\ in_rows = << >>
    /\ in_cols = << >>

InitNorm ==
    /\ InitSession
    /\ in_rows \in NormRowSets
    /\ in_cols \in NormColSets

(***************************************************************************)
(* DatabaseManager actions                                                 *)
(***************************************************************************)
\* connect() without the `is None` test
ConnectedAs_Always(c) == next_handle

\* connect(): the handle self.conn holds afterwards
ConnectedAs(c) == IF c = 0 THEN next_handle ELSE c

\* the manager's connection becomes h: a connection is opened when h is new
Connecting(h) ==
    /\ h = conn \/ next_handle <= MaxHandles
    /\ conn' = h
    /\ open_conns' = open_conns \cup {h}
    /\ next_handle' = IF h = conn THEN next_handle ELSE next_handle + 1

\* the tables the manager sees once connected as h: a new in-memory database
\* is empty
TablesOf(h) == IF h = conn THEN tables ELSE EmptyTables

connect ==
    /\ Connecting(ConnectedAs(conn))
    /\ tables' = TablesOf(ConnectedAs(conn))
    /\ ret' = [Returned("connect") EXCEPT !.n = ConnectedAs(conn)]
    /\ UNCHANGED <<impl, file, initialized, in_rows, in_cols, loads>>

\* a disconnect() that closes nothing
Closes_Never(c) == FALSE

\* disconnect(): whether there is a connection to close
Closes(c) == c # 0

disconnect ==
    /\ IF Closes(conn)
          THEN /\ open_conns' = open_conns \ {conn}
               /\ conn' = 0
               /\ tables' = EmptyTables
          ELSE UNCHANGED <<open_conns, conn, tables>>
    /\ ret' = Returned("disconnect")
    /\ UNCHANGED <<impl, next_handle, file, initialized, in_rows, in_cols, loads>>

execute_query(q) ==
    LET r == DbExecuteQuery(conn, tables, file, q) IN
    /\ tables' = r.tables
    /\ ret' = IF r.ok
                 THEN [Returned("execute_query") EXCEPT
                          !.q = q, !.pay.data = r.rows, !.pay.columns = r.cols]
                 ELSE [Raised("execute_query", r.err) EXCEPT !.q = q]
    /\ UNCHANGED <<conn, impl, open_conns, next_handle, file, initialized,
                   in_rows, in_cols, loads>>

get_table_info ==
    LET r == DbGetTableInfo(impl, conn, tables, file) IN
    /\ ret' = IF r.ok THEN [Returned("get_table_info") EXCEPT !.info = r.val]
                      ELSE Raised("get_table_info", r.err)
    /\ UNCHANGED <<conn, impl, open_conns, next_handle, tables, file, initialized,
                   in_rows, in_cols, loads>>

table_exists ==
    /\ ret' = [Returned("table_exists") EXCEPT !.b = DbTableExists(conn, tables, file)]
    /\ UNCHANGED <<conn, impl, open_conns, next_handle, tables, file, initialized,
                   in_rows, in_cols, loads>>

(***************************************************************************)
(* DataLoader and DataAnalyzer actions                                     *)
(***************************************************************************)
Load(op, csv_content, t) ==
    LET h == ConnectedAs(conn)
        out == LoadCsvFromContent(op, h, TablesOf(h), csv_content, t)
    IN /\ Connecting(h)
       /\ file' = out.file
       /\ tables' = out.tables
       /\ ret' = out.ret
       /\ UNCHANGED <<impl, initialized, in_rows, in_cols, loads>>

load_csv_from_content(csv_content, t) == Load("load_csv_from_content", csv_content, t)

get_sample_data(t, limit) ==
    /\ ret' = GetSampleData(t, limit)
    /\ UNCHANGED <<conn, impl, open_conns, next_handle, tables, file, initialized,
                   in_rows, in_cols, loads>>

describe(t) ==
    /\ ret' = RunAnalysisCommand("describe", "DESCRIBE", t)
    /\ UNCHANGED <<conn, impl, open_conns, next_handle, tables, file, initialized,
                   in_rows, in_cols, loads>>

summarize(t) ==
    /\ ret' = RunAnalysisCommand("summarize", "SUMMARIZE", t)
    /\ UNCHANGED <<conn, impl, open_conns, next_handle, tables, file, initialized,
                   in_rows, in_cols, loads>>

custom_query(q) ==
    /\ ret' = CustomQuery(q)
    /\ UNCHANGED <<conn, impl, open_conns, next_handle, tables, file, initialized,
                   in_rows, in_cols, loads>>

(***************************************************************************)
(* Package functions (csv_analyzer/__init__.py)                            *)
(***************************************************************************)
\* initialize(): new DatabaseManager, DataAnalyzer, DataLoader and
\* DataProcessor replace the globals; the new manager connects.  The manager
\* the globals held before is never disconnected: its connection stays open
\* when the host still holds the objects an earlier initialize() returned,
\* and is closed by the interpreter when nothing refers to it any more.
initialize ==
    /\ next_handle <= MaxHandles
    /\ conn' = next_handle
    /\ \E held \in BOOLEAN :
        open_conns' = (IF held THEN open_conns ELSE open_conns \ {conn})
                          \cup {next_handle}
    /\ next_handle' = next_handle + 1
    /\ tables' = EmptyTables
    /\ impl' = "csv_analyzer"
    /\ initialized' = TRUE
    /\ ret' = Returned("initialize")
    /\ UNCHANGED <<file, in_rows, in_cols, loads>>

\* the test left out
GlobalsSet_Unchecked == TRUE

\* the `is None` test of the three convenience functions
GlobalsSet == initialized

NotInitializedCall(op) ==
    /\ ret' = Raised(op, NotInitialized)
    /\ UNCHANGED <<conn, impl, open_conns, next_handle, tables, file, initialized,
                   in_rows, in_cols, loads>>

load_csv(csv_content) ==
    IF GlobalsSet THEN Load("load_csv", csv_content, DefaultTable)
    ELSE NotInitializedCall("load_csv")

describe_data ==
    IF GlobalsSet
    THEN /\ ret' = RunAnalysisCommand("describe_data", "DESCRIBE", DefaultTable)
         /\ UNCHANGED <<conn, impl, open_conns, next_handle, tables, file,
                        initialized, in_rows, in_cols, loads>>
    ELSE NotInitializedCall("describe_data")

summarize_data ==
    IF GlobalsSet
    THEN /\ ret' = RunAnalysisCommand("summarize_data", "SUMMARIZE", DefaultTable)
         /\ UNCHANGED <<conn, impl, open_conns, next_handle, tables, file,
                        initialized, in_rows, in_cols, loads>>
    ELSE NotInitializedCall("summarize_data")

run_analysis_command(command_type) ==
    /\ ret' = RunAnalysisScript(command_type)
    /\ UNCHANGED <<conn, impl, open_conns, next_handle, tables, file, initialized,
                   in_rows, in_cols, loads>>

(***************************************************************************)
(* get_table_info's loop over the rows of a DESCRIBE                       *)
(***************************************************************************)
\* the type strings the engine reports in DESCRIBE
TypeStrings ==
    {"VARCHAR", "TEXT", "INTEGER", "BIGINT", "UBIGINT", "HUGEINT", "SMALLINT",
     "DOUBLE", "FLOAT", "DECIMAL(18,3)", "DATE", "TIME", "TIMESTAMP",
     "TIMESTAMP WITH TIME ZONE", "BOOLEAN", "MAP(VARCHAR, INTEGER)",
     "STRUCT(d DATE, n INTEGER)", "STRUCT(d DATE, ok BOOLEAN)"}

\* the DESCRIBE row of a column col of type col_type
DescribeRow(col_type) ==
    DescribeRows([exists |-> TRUE, rows |-> << >>,
                  cols |-> <<[name |-> "col", type |-> col_type]>>])

column_details(col_type) ==
    /\ ret' = [Returned("column_details") EXCEPT
                  !.pay.data = DescribeRow(col_type),
                  !.info = ColumnDetails(DescribeRow(col_type))]
    /\ UNCHANGED <<conn, impl, open_conns, next_handle, tables, file, initialized,
                   in_rows, in_cols, loads>>

(***************************************************************************)
(* DataProcessor actions, on the result set drawn in the initial state     *)
(***************************************************************************)
process_query_result ==
    /\ ret' = [Returned("process_query_result") EXCEPT
                  !.pay = ProcessQueryResult(in_rows, in_cols)]
    /\ UNCHANGED <<conn, impl, open_conns, next_handle, tables, file, initialized,
                   in_rows, in_cols, loads>>

convert_cell_value(cell) ==
    /\ ret' = [Returned("_convert_cell_value") EXCEPT
                  !.info = <<cell>>, !.pay.data = << <<ConvertCellValue(cell)>> >>]
    /\ UNCHANGED <<conn, impl, open_conns, next_handle, tables, file, initialized,
                   in_rows, in_cols, loads>>

(***************************************************************************)
(* Specifications                                                          *)
(***************************************************************************)
Next ==
    \/ connect
    \/ disconnect
    \/ \E q \in Queries : execute_query(q)
    \/ get_table_info
    \/ table_exists
    \/ \E c \in CsvInputs, t \in TableNames : load_csv_from_content(c, t)
    \/ \E t \in TableNames, limit \in SampleLimits : get_sample_data(t, limit)
    \/ \E t \in TableNames : describe(t)
    \/ \E t \in TableNames : summarize(t)
    \/ \E q \in CustomQueries : custom_query(q)
    \/ initialize
    \/ \E c \in CsvInputs : load_csv(c)
    \/ describe_data
    \/ summarize_data
    \/ \E command_type \in {"describe", "summarize"} : run_analysis_command(command_type)

Spec == Init /\ [][Next]_vars

NextNorm ==
    \/ process_query_result
    \/ \E cell \in CellInputs : convert_cell_value(cell)
    \/ \E col_type \in TypeStrings : column_details(col_type)

SpecNorm == InitNorm /\ [][NextNorm]_vars

(***************************************************************************)
(* load_csv_from_content step by step, called from two threads on the one  *)
(* loader: connect and write the file, DROP, CREATE, count                 *)
(***************************************************************************)
InFlight(c) == loads.call[c].pc \in {"staged", "dropped", "created"}

Step(c, pc) == [loads EXCEPT !.call[c].pc = pc]

Finished(c, ok, err, n) ==
    [loads EXCEPT !.call[c].pc = "done", !.call[c].ok = ok, !.call[c].err = err,
                  !.call[c].n = n, !.last = c]

\* connect() and the write of /tmp/data.csv
rc_stage(c, csv_content) ==
    /\ ~InFlight(c)
    /\ Connecting(ConnectedAs(conn))
    /\ tables' = TablesOf(ConnectedAs(conn))
    /\ file' = StageFile(file, csv_content)
    /\ loads' = [loads EXCEPT !.call =
                    [d \in Callers |->
                        IF d = c
                        THEN [IdleCall EXCEPT
                                !.pc = "staged", !.csv = csv_content,
                                !.ov = \E e \in Callers \ {c} : InFlight(e)]
                        ELSE IF InFlight(d) THEN [loads.call[d] EXCEPT !.ov = TRUE]
                        ELSE loads.call[d]]]
    /\ UNCHANGED <<impl, initialized, ret, in_rows, in_cols>>

\* DROP TABLE IF EXISTS, its failure ignored
rc_drop(c) ==
    /\ loads.call[c].pc = "staged"
    /\ tables' = DbExecuteQuery(conn, tables, file, QDrop(DefaultTable)).tables
    /\ loads' = Step(c, "dropped")
    /\ UNCHANGED <<conn, impl, open_conns, next_handle, file, initialized, ret,
                   in_rows, in_cols>>

\* CREATE TABLE ... AS SELECT * FROM read_csv_auto('/tmp/data.csv')
rc_create(c) ==
    LET created == DbExecuteQuery(conn, tables, file, QCreate(DefaultTable)) IN
    /\ loads.call[c].pc = "dropped"
    /\ tables' = created.tables
    /\ loads' = IF created.ok THEN Step(c, "created")
                ELSE Finished(c, FALSE, created.err, 0)
    /\ UNCHANGED <<conn, impl, open_conns, next_handle, file, initialized, ret,
                   in_rows, in_cols>>

\* SELECT count(*) and the return
rc_count(c) ==
    LET counted == DbExecuteQuery(conn, tables, file, QCount(DefaultTable)) IN
    /\ loads.call[c].pc = "created"
    /\ loads' = IF counted.ok THEN Finished(c, TRUE, "", RowCount(counted))
                ELSE Finished(c, FALSE, counted.err, 0)
    /\ UNCHANGED <<conn, impl, open_conns, next_handle, tables, file, initialized,
                   ret, in_rows, in_cols>>

NextRace ==
    \/ \E c \in Callers, csv_content \in CsvInputs : rc_stage(c, csv_content)
    \/ \E c \in Callers : rc_drop(c)
    \/ \E c \in Callers : rc_create(c)
    \/ \E c \in Callers : rc_count(c)

SpecRace == Init /\ [][NextRace]_vars

(***************************************************************************)
(* Properties                                                              *)
(***************************************************************************)
LoadOps == {"load_csv_from_content", "load_csv"}
AnalysisOps == {"describe", "summarize"}
TopOps == {"load_csv", "describe_data", "summarize_data"}

ColumnNames(tb) == [j \in 1..Len(tb.cols) |-> tb.cols[j].name]

\* C1: after a successful load into a table, whatever the table held before,
\* the table has exactly the columns of the header of the content just loaded
\* and exactly its data rows: nothing of an earlier load remains.
C1_ReloadReplaces ==
    (ret.op \in LoadOps /\ ret.ok) =>
        /\ tables[ret.t].exists
        /\ ColumnNames(tables[ret.t]) = ret.csv[1]
        /\ Len(tables[ret.t].rows) = Len(ret.csv) - 1
        /\ tables[ret.t] = ReadCsvAuto(ret.csv)

\* a successful load over a table that held another content
C1_Witness ==
    /\ ret.op \in LoadOps
    /\ ret.ok
    /\ ret.old.exists
    /\ ret.old # tables[ret.t]
    /\ Len(ret.old.rows) > Len(tables[ret.t].rows)

\* C2: a load of a valid CSV text into the default table succeeds and returns
\* the number of its lines after the header, and get_table_info() called
\* next reports that row count and as many columns as the header has fields.
C2_LoadCountsRows ==
    (ret.op \in LoadOps /\ ret.t = DefaultTable /\ CsvValid(ret.csv)) =>
        LET r == DbGetTableInfo(impl, conn, tables, file) IN
        /\ ret.ok
        /\ ret.n = Len(ret.csv) - 1
        /\ r.ok
        /\ r.val[1] = ret.n
        /\ Len(r.val[2]) = Len(ret.csv[1])

C2_Witness ==
    /\ ret.op = "load_csv_from_content"
    /\ ret.t = DefaultTable
    /\ ret.ok
    /\ ret.n = 2
    /\ Len(ret.csv[1]) = 2

\* C3: with the default table loaded and the session connected,
\* describe("csv_data") returns a payload of command DESCRIBE for csv_data
\* with one row per column of the table, whichever get_table_info the manager
\* has.
C3_DescribeDefaultSucceeds ==
    (ret.op = "describe" /\ ret.t = DefaultTable /\ conn # 0
        /\ tables[DefaultTable].exists) =>
        /\ ret.ok
        /\ ret.pay.command = "DESCRIBE"
        /\ ret.pay.table_name = DefaultTable
        /\ ret.pay.row_count = Len(tables[DefaultTable].cols)

\* C4: describe(t) and summarize(t) raise the table-not-found error whenever
\* no table named t exists, also when another table does.
C4_MissingTableNotFound ==
    (ret.op \in AnalysisOps /\ impl = "csv_analyzer"
        /\ ~(conn # 0 /\ tables[ret.t].exists)) =>
        (~ret.ok /\ ret.err = TableNotFound)

\* C5: execute_query raises the not-connected error exactly when there is no
\* connection, and then changes nothing: no connection is created, no table
\* and no file is touched.
C5_ExecuteQueryNeedsConnection ==
    /\ [](ret.op = "execute_query" => (ret.err = NotConnected <=> conn = 0))
    /\ [][(ret'.op = "execute_query" /\ conn = 0) =>
            /\ ~ret'.ok
            /\ ret'.err = NotConnected
            /\ UNCHANGED <<conn, impl, open_conns, next_handle, tables, file,
                           initialized>>]_vars
    /\ [][(ret'.op = "execute_query" /\ conn # 0) =>
            (ret'.err # NotConnected /\ conn' = conn)]_vars

\* execute_query refused after a disconnect
C5_Witness ==
    /\ ret.op = "execute_query"
    /\ ret.err = NotConnected
    /\ conn = 0
    /\ next_handle > 1

\* C6: table_exists() returns and never raises; it returns true exactly when
\* there is a connection and the default table is present.
C6_TableExistsTotal ==
    ret.op = "table_exists" =>
        /\ ret.ok
        /\ ret.b <=> (conn # 0 /\ tables[DefaultTable].exists)

\* table_exists() answering false with no connection, after a load
C6_Witness ==
    /\ ret.op = "table_exists"
    /\ ret.ok
    /\ ~ret.b
    /\ conn = 0
    /\ file.present

\* C7: connect() on a connected manager returns the handle it holds and
\* changes neither the connection nor the tables; disconnect() on a
\* disconnected manager returns without raising and changes nothing.
C7_ConnectDisconnectIdempotent ==
    /\ [][(ret'.op = "connect" /\ conn # 0) =>
            /\ ret'.ok
            /\ ret'.n = conn
            /\ UNCHANGED <<conn, open_conns, next_handle, tables, file>>]_vars
    /\ [][(ret'.op = "disconnect" /\ conn = 0) =>
            /\ ret'.ok
            /\ UNCHANGED <<conn, open_conns, next_handle, tables, file>>]_vars
    /\ [](ret.op = "connect" => (ret.ok /\ ret.n = conn /\ conn \in open_conns))
    /\ [](ret.op = "disconnect" => (ret.ok /\ conn = 0))

\* connect() called with a table loaded: the table is still there
C7_Witness ==
    /\ ret.op = "connect"
    /\ conn # 0
    /\ tables[DefaultTable].exists

PayloadCounts ==
    /\ ret.pay.row_count = Len(in_rows)
    /\ Len(ret.pay.data) = Len(in_rows)
    /\ ret.pay.column_count = Len(ret.pay.columns)
    /\ ret.pay.columns = in_cols

\* C9: every payload of process_query_result(rows, cols) has row_count =
\* len(rows), column_count = len(columns) and every row of data as long as
\* column_count, for all rows and cols.
C9_PayloadShape ==
    ret.op = "process_query_result" =>
        /\ PayloadCounts
        /\ \A i \in 1..Len(ret.pay.data) : Len(ret.pay.data[i]) = ret.pay.column_count

\* the same number: n1 * 10^(-e1) = n2 * 10^(-e2)
RECURSIVE Pow10(_)
Pow10(e) == IF e = 0 THEN 1 ELSE 10 * Pow10(e - 1)
SameNumber(a, b) == a.n * Pow10(b.e) = b.n * Pow10(a.e)

\* C10 as claimed: null to null, decimal to float, integer and float
\* unchanged, every other kind, booleans included, to its string.
C10_ConvertCellValue ==
    ret.op = "_convert_cell_value" =>
        LET cell == ret.info[1]
            out == ret.pay.data[1][1]
        IN /\ ret.ok
           /\ cell.k = "null" => out = NoneCell
           /\ cell.k = "decimal" => (out.k = "float" /\ SameNumber(out, cell))
           /\ cell.k \in {"int", "float"} => out = cell
           /\ cell.k \in {"bool", "date", "str", "obj"} => out.k = "str"
           /\ cell.k = "bool" => out.s = (IF cell.n = 1 THEN "True" ELSE "False")
           /\ cell.k \in {"date", "str", "obj"} => out.s = cell.s

\* C10 amended: null to null, decimal to float, integer, float and boolean
\* unchanged (a boolean is an integer to isinstance), every other kind to its
\* string; the conversion never raises.
C10_ConvertCellValueAmended ==
    ret.op = "_convert_cell_value" =>
        LET cell == ret.info[1]
            out == ret.pay.data[1][1]
        IN /\ ret.ok
           /\ cell.k = "null" => out = NoneCell
           /\ cell.k = "decimal" => (out.k = "float" /\ SameNumber(out, cell))
           /\ cell.k \in {"int", "float", "bool"} => out = cell
           /\ cell.k \in {"date", "str", "obj"} => (out.k = "str" /\ out.s = cell.s)

\* a boolean converted: it is returned as it is
C10_Witness ==
    /\ ret.op = "_convert_cell_value"
    /\ ret.info[1].k = "bool"
    /\ ret.pay.data[1][1] = ret.info[1]


\* the statement whose rows a call returned
RowsQuery ==
    CASE ret.op \in {"describe", "summarize", "describe_data", "summarize_data"} ->
            Q(ret.pay.command, ret.t, 0)
      [] ret.op = "get_sample_data" -> QSample(ret.t, ret.n)
      [] OTHER -> ret.q

RowOps ==
    {"describe", "summarize", "describe_data", "summarize_data", "custom_query",
     "get_sample_data", "run_analysis_command"}

\* C11: on every path that returns rows (describe, summarize, custom_query,
\* get_sample_data, the scripts' process_query_result) a cell the engine
\* returned as null is null in the rows returned, at the same place.
C11_NullStaysNull ==
    (ret.op \in RowOps /\ ret.ok) =>
        LET raw == Execute(tables, file, RowsQuery).rows IN
        /\ Len(ret.pay.data) = Len(raw)
        /\ \A i \in 1..Len(raw) :
            /\ Len(ret.pay.data[i]) = Len(raw[i])
            /\ \A j \in 1..Len(raw[i]) :
                raw[i][j] = NoneCell => ret.pay.data[i][j] = NoneCell

\* a SUMMARIZE payload with a null statistic
C11_Witness ==
    /\ ret.op = "summarize"
    /\ ret.ok
    /\ \E i \in 1..Len(ret.pay.data) : ret.pay.data[i][6] = NoneCell


CommandOf(op) ==
    IF op \in {"describe", "describe_data"} THEN "DESCRIBE" ELSE "SUMMARIZE"

\* the analysis command of the last call was issued: the existence check and
\* the table-info step before it passed
CommandReached ==
    /\ DbTableExists(conn, tables, file)
    /\ DbGetTableInfo(impl, conn, tables, file).ok
    /\ Len(DbGetTableInfo(impl, conn, tables, file).val) = 2

\* C12: describe, summarize and custom_query return a payload only when the
\* command succeeded at the engine; when it failed the caller gets the error
\* the engine raised and no payload.
C12_ErrorsPropagate ==
    /\ ret.op \in {"describe", "summarize", "describe_data", "summarize_data"}
        /\ ret.err # NotInitialized =>
            LET r == DbExecuteQuery(conn, tables, file, Q(CommandOf(ret.op), ret.t, 0)) IN
            /\ ret.ok => (r.ok /\ "data" \in ret.pay.keys)
            /\ ~ret.ok => ret.pay = NoPay
            /\ (~r.ok /\ CommandReached) => (~ret.ok /\ ret.err = r.err)
    /\ ret.op = "custom_query" =>
            LET r == DbExecuteQuery(conn, tables, file, ret.q) IN
            /\ ret.ok <=> r.ok
            /\ ~r.ok => (ret.err = r.err /\ ret.pay = NoPay)

\* the engine's error for a missing table reaching the caller of describe
C12_Witness ==
    /\ ret.op = "describe"
    /\ ~ret.ok
    /\ ret.err = "CatalogException"
    /\ tables[DefaultTable].exists


\* C13: in every successful describe(t) or summarize(t), source_table_rows is
\* the number of rows table t has at the call.
C13_SourceRowsOfTarget ==
    (ret.op \in AnalysisOps /\ ret.ok) =>
        ret.pay.source_table_rows = Len(tables[ret.t].rows)


NormalizedKinds == {"null", "int", "float", "bool", "str"}

\* C14: a successful get_sample_data(t, limit) on a table of n rows returns
\* min(limit, n) rows, sample_size = the number of rows returned, columns =
\* the table's column names in order, every row as long as columns and every
\* cell a normalized cell value (null, number, boolean or string).
C14_SampleShape ==
    (ret.op = "get_sample_data" /\ ret.ok) =>
        /\ Len(ret.pay.data) = Min(ret.n, Len(tables[ret.t].rows))
        /\ ret.pay.sample_size = Len(ret.pay.data)
        /\ ret.pay.columns = ColumnNames(tables[ret.t])
        /\ \A i \in 1..Len(ret.pay.data) :
            /\ Len(ret.pay.data[i]) = Len(ret.pay.columns)
            /\ \A j \in 1..Len(ret.pay.data[i]) :
                ret.pay.data[i][j].k \in NormalizedKinds


\* C15: when a load into t fails between its drop and its create (the engine
\* rejects the staged text), the caller gets the engine's error, no table t
\* exists afterwards, and a describe(t) or summarize(t) issued next fails
\* with the table-not-found error.
C15_FailedLoadLeavesNoTable ==
    (ret.op \in LoadOps /\ ~ret.ok /\ ret.err # NotInitialized
        /\ impl = "csv_analyzer") =>
        /\ ret.err = Execute(EmptyTables, file, QCreate(ret.t)).err
        /\ ~tables[ret.t].exists
        /\ \A command \in {"DESCRIBE", "SUMMARIZE"} :
            LET next == RunAnalysisCommand("describe", command, ret.t)
            IN ~next.ok /\ next.err = TableNotFound


ReadOps == {"describe", "summarize", "table_exists", "get_table_info", "get_sample_data"}

StaysConnected == conn # 0 /\ conn' = conn

\* a step of a successful load ends with its table present
LoadEndsReady == (ret'.op \in LoadOps /\ ret'.ok) => tables'[ret'.t].exists

\* a step of one of the reading operations changes no table, not the
\* connection handle and not the staged file
ReadsChangeNothing == ret'.op \in ReadOps => UNCHANGED <<tables, conn, file>>

FailedLoadOf(t) == ret'.op \in LoadOps /\ ~ret'.ok /\ ret'.t = t

AllRefused ==
    /\ \A q \in Queries : ~DbExecuteQuery(conn, tables, file, q).ok
    /\ ~DbGetTableInfo(impl, conn, tables, file).ok
    /\ \A t \in TableNames :
        /\ ~RunAnalysisCommand("describe", "DESCRIBE", t).ok
        /\ ~RunAnalysisCommand("summarize", "SUMMARIZE", t).ok
    /\ \A q \in CustomQueries : ~CustomQuery(q).ok

\* a step that takes the session from disconnected to connected is a
\* connect(), a load or an initialize(), and the only table there is then is
\* the one that step loaded, with the content it was given
ReconnectsEmpty ==
    (conn = 0 /\ conn' # 0) =>
        /\ ret'.op \in {"connect", "initialize"} \cup LoadOps
        /\ \A t \in TableNames :
            tables'[t].exists =>
                /\ ret'.op \in LoadOps /\ ret'.ok /\ ret'.t = t
                /\ tables'[t] = ReadCsvAuto(ret'.csv)

\* C17: after disconnect() there is no connection, and as long as there is
\* none execute_query, get_table_info, describe, summarize and custom_query
\* fail; only connect(), a load (which reconnects) or initialize() ends
\* this, and the database is then empty but for what that load put in it.
C17_DisconnectedFails ==
    /\ [](conn = 0 => (AllRefused /\ tables = EmptyTables))
    /\ [][(ret'.op = "disconnect" => conn' = 0) /\ ReconnectsEmpty]_vars

C17_Witness ==
    /\ conn = 0 /\ file # NoFile
    /\ ret.op = "custom_query" /\ ~ret.ok /\ ret.err = NotConnected


\* C18: at every moment at most one engine connection opened by this layer
\* is open; a second initialize() does not leave the first one's open.
C18_OneConnection == Cardinality(open_conns) <= 1


OwnRows(c) == Len(ReadCsvAuto(loads.call[c].csv).rows)

Quiescent == \A c \in Callers : ~InFlight(c)

\* a finished call that no other call overlapped succeeded exactly when its
\* content is readable and returned the row count of its own content
AloneCountsOwn(c) ==
    (loads.call[c].pc = "done" /\ ~loads.call[c].ov) =>
        /\ loads.call[c].ok <=> CsvValid(loads.call[c].csv)
        /\ loads.call[c].ok => loads.call[c].n = OwnRows(c)

\* with no call in progress, the table is what the call that finished last
\* made of its own content, when that call was not overlapped
LastAloneOwnsTable ==
    \A c \in Callers :
        (Quiescent /\ loads.last = c /\ ~loads.call[c].ov) =>
            tables[DefaultTable] =
                IF CsvValid(loads.call[c].csv) THEN ReadCsvAuto(loads.call[c].csv)
                ELSE NoTable

\* C19: load_csv_from_content calls that do not overlap each return the row
\* count of their own content and leave the table built from the content of
\* the call that finished last; two calls that overlap can return a row count
\* that is not that of their own content (C19_Witness), or leave the table
\* built from the other call's content (C19_ForeignTable).
C19_NonOverlappingLoads ==
    /\ \A c \in Callers : AloneCountsOwn(c)
    /\ LastAloneOwnsTable

C19_Witness ==
    \E c \in Callers :
        /\ loads.call[c].pc = "done" /\ loads.call[c].ok /\ loads.call[c].ov
        /\ CsvValid(loads.call[c].csv)
        /\ loads.call[c].n # OwnRows(c)

C19_ForeignTable ==
    \E c \in Callers :
        /\ Quiescent /\ loads.last = c /\ loads.call[c].ok
        /\ CsvValid(loads.call[c].csv)
        /\ tables[DefaultTable] # ReadCsvAuto(loads.call[c].csv)
        /\ \E d \in Callers \ {c} :
            /\ loads.call[d].pc = "done"
            /\ tables[DefaultTable] = ReadCsvAuto(loads.call[d].csv)


Kinds == {"string", "number", "date", "boolean"}

\* the rules in their order: the kind and the substrings that select it
KindRules ==
    << [kind |-> "string", pats |-> {"VARCHAR", "TEXT"}],
       [kind |-> "number", pats |-> {"INTEGER", "BIGINT", "DOUBLE", "FLOAT"}],
       [kind |-> "date", pats |-> {"DATE", "TIMESTAMP"}],
       [kind |-> "boolean", pats |-> {"BOOLEAN"}] >>

Matching(ty) == {i \in DOMAIN KindRules : \E p \in KindRules[i].pats : Contains(ty, p)}

FirstMatch(ty) ==
    IF Matching(ty) = {} THEN "string"
    ELSE KindRules[CHOOSE i \in Matching(ty) : \A k \in Matching(ty) : i <= k].kind

\* the kind of each type string, written down by hand
KindOf(ty) ==
    CASE ty \in {"VARCHAR", "TEXT", "MAP(VARCHAR, INTEGER)"} -> "string"
      [] ty \in {"INTEGER", "BIGINT", "UBIGINT", "DOUBLE", "FLOAT",
                 "STRUCT(d DATE, n INTEGER)"} -> "number"
      [] ty \in {"DATE", "TIMESTAMP", "TIMESTAMP WITH TIME ZONE",
                 "STRUCT(d DATE, ok BOOLEAN)"} -> "date"
      [] ty = "BOOLEAN" -> "boolean"
      [] ty \in {"HUGEINT", "SMALLINT", "DECIMAL(18,3)", "TIME"} -> "string"

\* C20: for every engine type string get_table_info's loop returns one
\* descriptor per DESCRIBE row, whose kind is one of string, number, date,
\* boolean: the kind of the first rule, in the order string, number, date,
\* boolean, that matches the type string, and string when none matches; the
\* call of the loop always returns.
C20_KindMappingTotal ==
    ret.op = "column_details" =>
        /\ ret.ok
        /\ Len(ret.info) = Len(ret.pay.data)
        /\ \A j \in 1..Len(ret.info) :
            LET ty == ret.pay.data[j][2].s IN
            /\ ret.info[j].raw_type = ty
            /\ ret.info[j].type \in Kinds
            /\ ret.info[j].type = FirstMatch(ty)
            /\ ret.info[j].type = KindOf(ty)
            /\ Matching(ty) = {} => ret.info[j].type = "string"

C20_Witness ==
    /\ ret.op = "column_details"
    /\ ret.info[1].raw_type = "STRUCT(d DATE, n INTEGER)"
    /\ Matching(ret.info[1].raw_type) = {2, 3}
    /\ ret.info[1].type = "number"

====
